---- MODULE Spec2Model ----
(***************************************************************************)
(* printbl: a command-line table previewer (src/src/main.rs).              *)
(*                                                                         *)
(* The module models one invocation of `main`: argument parsing and        *)
(* conflict validation by clap, the process-wide presentation settings,    *)
(* the three pure resolvers (format, delimiter, row budget), the choice    *)
(* of loader, and the sequence of prints that follows the load.            *)
(*                                                                         *)
(* Option<T> is modelled as a sequence of length at most one:              *)
(*   None = << >>   and   Some(x) = << x >>.                               *)
(* A path is a sequence of tokens; "." and "/" are the dot and the path    *)
(* separator, every other token is a run of ordinary characters.           *)
(***************************************************************************)
EXTENDS Integers, Sequences, FiniteSets, TLC

VARIABLES
    cli_args,     \* the CliArgs record built from the command line
    pc,           \* position of the invocation inside main
    env,          \* process environment variables written by the program
    env_writes,   \* number of calls of configure_the_environment so far
    n_rows,       \* Option<usize>: row budget handed to the loader
    file_format,  \* Option<&FileFormat>
    delimiter,    \* Option<char>: the resolved delimiter once computed
    io,           \* sequence of file-system / stdin operations attempted
    calls,        \* sequence of loader calls with the parameters received
    df,           \* Option<DataFrame>: the loaded table
    engine,       \* sequence of requests made to the data-frame engine
    stdout        \* sequence of things written to standard output

vars == <<cli_args, pc, env, env_writes, n_rows, file_format, delimiter,
          io, calls, df, engine, stdout>>

(***************************************************************************)
(* Bounds of the model.                                                    *)
(***************************************************************************)
MaxCount == 3
MaxSrcRows == 2
MaxPathLen == 3

(***************************************************************************)
(* Program constants.                                                      *)
(***************************************************************************)
HeadDefault == 10

None == << >>
Some(x) == << x >>

Min(a, b) == IF a <= b THEN a ELSE b

(***************************************************************************)
(* Paths.                                                                  *)
(***************************************************************************)
Dot == "."
Slash == "/"
NameTokens == {"csv", "CSV", "tsv", "parquet", "data", "-"}
Tokens == NameTokens \cup {Dot, Slash}

StdinPath == << "-" >>

SeqsUpTo(S, n) == UNION { [1..k -> S] : k \in 0..n }

\* index of the last occurrence of token t in s, 0 when there is none
LastIndexOf(s, t) ==
    LET I == { i \in 1..Len(s) : s[i] = t }
    IN  IF I = {} THEN 0 ELSE CHOOSE i \in I : \A j \in I : j <= i

\* std::path::Path::file_name: the last component of the path when it is a
\* normal one.  Trailing separators and "." components are skipped, a path
\* that ends in ".." (or has no component at all) has no file name.
RECURSIVE file_name(_)
file_name(p) ==
    IF p = << >> THEN None
    ELSE LET k    == LastIndexOf(p, Slash)
             seg  == SubSeq(p, k + 1, Len(p))
             rest == SubSeq(p, 1, k - 1)
         IN  IF seg = << >> \/ seg = << Dot >>
                THEN (IF k = 0 THEN None ELSE file_name(rest))
             ELSE IF seg = << Dot, Dot >> THEN None
             ELSE Some(seg)

\* std::path::Path::extension: the part of the file name after its last
\* dot; None when there is no file name, no dot, or the only dot is the
\* first character of the name.
extension(p) ==
    LET fn == file_name(p)
    IN  IF fn = None THEN None
        ELSE LET name == fn[1]
                 k    == LastIndexOf(name, Dot)
             IN  IF k = 0 \/ k = 1 THEN None
                 ELSE Some(SubSeq(name, k + 1, Len(name)))

\* Variant that also accepts the upper-case extension CSV.
get_format_from_filename_ci(filename) ==
    LET file_extension == extension(filename)
    IN  IF file_extension \in {Some(<< "csv" >>), Some(<< "CSV" >>)} THEN Some("Csv")
        ELSE IF file_extension = Some(<< "tsv" >>) THEN Some("Tsv")
        ELSE IF file_extension = Some(<< "parquet" >>) THEN Some("Parquet")
        ELSE None

get_format_from_filename(filename) ==
    LET file_extension == extension(filename)
    IN  IF file_extension = Some(<< "csv" >>) THEN Some("Csv")
        ELSE IF file_extension = Some(<< "tsv" >>) THEN Some("Tsv")
        ELSE IF file_extension = Some(<< "parquet" >>) THEN Some("Parquet")
        ELSE None

(***************************************************************************)
(* Delimiter.                                                              *)
(***************************************************************************)
Comma == ","
Tab == "\t"
Semicolon == ";"
Delimiters == {Comma, Tab, Semicolon}

get_default_delimiter(format) ==
    IF format = Some("Tsv") THEN Tab ELSE Comma

\* Variant in which the tab of the Tsv format wins over the override.
get_delimiter_default_first(file_format_, delimiter_) ==
    IF file_format_ = Some("Tsv") THEN Tab
    ELSE IF delimiter_ # None THEN delimiter_[1]
    ELSE get_default_delimiter(file_format_)

get_delimiter(file_format_, delimiter_) ==
    IF delimiter_ # None THEN delimiter_[1]
    ELSE get_default_delimiter(file_format_)

(***************************************************************************)
(* Row budget.                                                             *)
(***************************************************************************)
\* Variant in which the explicit count is looked at before tail/sample.
get_num_rows_to_parse_count_first(max_rows, head, tail, sample, column_names_only) ==
    IF column_names_only THEN Some(1)
    ELSE IF max_rows # None THEN Some(max_rows[1])
    ELSE IF tail \/ sample THEN None
    ELSE IF head THEN Some(HeadDefault)
    ELSE None

get_num_rows_to_parse(max_rows, head, tail, sample, column_names_only) ==
    IF column_names_only THEN Some(1)
    ELSE IF tail \/ sample THEN None
    ELSE IF max_rows # None THEN Some(max_rows[1])
    ELSE IF head THEN Some(HeadDefault)
    ELSE None

(***************************************************************************)
(* The command line.  max_rows is parsed with value_parser range(1..), so  *)
(* an explicit count is at least 1.                                        *)
(***************************************************************************)
MainPaths ==
    { StdinPath,
      << "data", Dot, "csv" >>, << "data", Dot, "tsv" >>,
      << "data", Dot, "parquet" >>, << "data", Dot, "CSV" >>, << "data" >> }

Counts == { None } \cup { Some(n) : n \in 1..MaxCount }
DelimiterArgs == { None } \cup { Some(d) : d \in Delimiters }
ColumnArgs == { None, Some(<< "b", "a" >>) }

CliArgs(paths) ==
    [ filepath : paths, max_rows : Counts, delimiter : DelimiterArgs,
      selected_columns : ColumnArgs, no_header : BOOLEAN,
      column_names_only : BOOLEAN, describe : BOOLEAN, head : BOOLEAN,
      tail : BOOLEAN, sample : BOOLEAN, markdown : BOOLEAN ]

DefaultArgs ==
    [ filepath |-> StdinPath, max_rows |-> None, delimiter |-> None,
      selected_columns |-> None, no_header |-> FALSE,
      column_names_only |-> FALSE, describe |-> FALSE, head |-> FALSE,
      tail |-> FALSE, sample |-> FALSE, markdown |-> FALSE ]

\* clap's conflicts_with_all declarations of get_args; a conflict counts
\* only between arguments that are present on the command line.
\* Variant without the column_names_only / describe conflict.
ConflictingFlags_no_describe(a) ==
    \/ a.head /\ (a.sample \/ a.tail)
    \/ a.tail /\ (a.head \/ a.sample)
    \/ a.sample /\ (a.head \/ a.tail)
    \/ a.column_names_only
         /\ (\/ a.head \/ a.tail \/ a.sample
             \/ a.max_rows # None
             \/ a.selected_columns # None
             \/ a.no_header
             \/ a.markdown)

ConflictingFlags(a) ==
    \/ a.head /\ (a.sample \/ a.tail)
    \/ a.tail /\ (a.head \/ a.sample)
    \/ a.sample /\ (a.head \/ a.tail)
    \/ a.column_names_only
         /\ (\/ a.head \/ a.tail \/ a.sample
             \/ a.max_rows # None
             \/ a.selected_columns # None
             \/ a.no_header
             \/ a.describe
             \/ a.markdown)

SetVar(e, k, v) == { p \in e : p[1] # k } \cup { << k, v >> }

Fresh ==
    /\ env = {}
    /\ env_writes = 0
    /\ n_rows = None
    /\ file_format = None
    /\ delimiter = None
    /\ io = << >>
    /\ calls = << >>
    /\ df = None
    /\ engine = << >>
    /\ stdout = << >>

Init ==
    /\ cli_args \in CliArgs(MainPaths)
    /\ pc = "get_args"
    /\ Fresh

(***************************************************************************)
(* main, step by step.                                                     *)
(***************************************************************************)

\* get_args: get_matches ends the process with a usage error when two
\* conflicting arguments are present.  The -d argument is declared without
\* a value parser and read back with get_one::<char>: when -d is present
\* that typed read either yields the character or aborts.
GetArgs ==
    /\ pc = "get_args"
    /\ \/ /\ ConflictingFlags(cli_args)
          /\ pc' = "exit_conflict"
       \/ /\ ~ConflictingFlags(cli_args)
          /\ pc' = "configure"
       \/ /\ ~ConflictingFlags(cli_args)
          /\ cli_args.delimiter # None
          /\ pc' = "panic_args"
    /\ UNCHANGED <<cli_args, env, env_writes, n_rows, file_format, delimiter,
                   io, calls, df, engine, stdout>>

configure_the_environment_env(for_markdown, e) ==
    LET e1 == SetVar(e, "POLARS_FMT_TABLE_DATAFRAME_SHAPE_BELOW", "1")
        e2 == SetVar(e1, "POLARS_FMT_MAX_ROWS", "-1")
    IN  IF for_markdown
           THEN SetVar(SetVar(e2, "POLARS_FMT_TABLE_FORMATTING", "ASCII_MARKDOWN"),
                       "POLARS_FMT_MAX_COLS", "-1")
           ELSE SetVar(e2, "POLARS_FMT_TABLE_ROUNDED_CORNERS", "1")

\* Variant of the step below that leaves the environment untouched.
ConfigureSkipped ==
    /\ pc = "configure"
    /\ pc' = "resolve"
    /\ UNCHANGED <<cli_args, env, env_writes, n_rows, file_format, delimiter,
                   io, calls, df, engine, stdout>>

ConfigureTheEnvironment ==
    /\ pc = "configure"
    /\ env' = configure_the_environment_env(cli_args.markdown, env)
    /\ env_writes' = env_writes + 1
    /\ pc' = "resolve"
    /\ UNCHANGED <<cli_args, n_rows, file_format, delimiter,
                   io, calls, df, engine, stdout>>

\* main, lines 332-341: the three resolvers.
Resolve ==
    /\ pc = "resolve"
    /\ n_rows' = get_num_rows_to_parse(cli_args.max_rows, cli_args.head,
                     cli_args.tail, cli_args.sample, cli_args.column_names_only)
    /\ file_format' = get_format_from_filename(cli_args.filepath)
    /\ delimiter' = Some(get_delimiter(file_format', cli_args.delimiter))
    /\ pc' = "print_is_stdin"
    /\ UNCHANGED <<cli_args, env, env_writes, io, calls, df, engine, stdout>>

\* main, line 344: the value of `filepath == "-"` is printed.
PrintIsStdin ==
    /\ pc = "print_is_stdin"
    /\ stdout' = Append(stdout, "is_stdin")
    /\ pc' = IF cli_args.filepath = StdinPath THEN "parse_from_stdin"
             ELSE "is_file"
    /\ UNCHANGED <<cli_args, env, env_writes, n_rows, file_format, delimiter,
                   io, calls, df, engine>>

\* The table a reader returns: the source holds `rows` records and the
\* reader keeps at most the row budget of them (with_n_rows).
Loaded(rows, budget) ==
    [ height |-> IF budget = None THEN rows ELSE Min(budget[1], rows),
      source_rows |-> rows ]

\* parse_from_stdin: standard input is read to its end, then parsed as
\* delimited text; either step may fail (expect).
ParseFromStdin ==
    /\ pc = "parse_from_stdin"
    /\ calls' = Append(calls,
                  [ fn |-> "parse_from_stdin",
                    select_columns |-> cli_args.selected_columns,
                    n_rows |-> n_rows,
                    delimiter |-> delimiter[1],
                    has_header |-> ~cli_args.no_header ])
    /\ io' = Append(io, "read_stdin")
    /\ \/ /\ pc' = "panic_load"
          /\ df' = df
       \/ \E rows \in 0..MaxSrcRows :
             /\ df' = Some(Loaded(rows, n_rows))
             /\ pc' = "print_names"
    /\ UNCHANGED <<cli_args, env, env_writes, n_rows, file_format, delimiter,
                   engine, stdout>>

\* Variant of the regular-file test that looks at the format first.
CheckIsFile_format_first ==
    /\ pc = "is_file"
    /\ \/ /\ file_format = None
          /\ pc' = "panic_no_format"
          /\ io' = io
       \/ /\ file_format # None
          /\ \/ /\ io' = Append(io, "is_file=false")
                /\ pc' = "panic_file_not_found"
             \/ /\ io' = Append(io, "is_file=true")
                /\ pc' = "match_format"
    /\ UNCHANGED <<cli_args, env, env_writes, n_rows, file_format, delimiter,
                   calls, df, engine, stdout>>

\* main, lines 353-355: PathBuf::is_file, panic when it is false.
CheckIsFile ==
    /\ pc = "is_file"
    /\ \/ /\ io' = Append(io, "is_file=false")
          /\ pc' = "panic_file_not_found"
       \/ /\ io' = Append(io, "is_file=true")
          /\ pc' = "match_format"
    /\ UNCHANGED <<cli_args, env, env_writes, n_rows, file_format, delimiter,
                   calls, df, engine, stdout>>

\* main, lines 357-369: the match on file_format.
MatchFormat ==
    /\ pc = "match_format"
    /\ pc' = IF file_format = Some("Parquet") THEN "parse_parquet_file"
             ELSE IF file_format = None THEN "panic_no_format"
             ELSE "parse_csv_file"
    /\ UNCHANGED <<cli_args, env, env_writes, n_rows, file_format, delimiter,
                   io, calls, df, engine, stdout>>

\* parse_parquet_file: File::open, then ParquetReader with the projection
\* and the row budget; either step may fail (expect).
ParseParquetFile ==
    /\ pc = "parse_parquet_file"
    /\ calls' = Append(calls,
                  [ fn |-> "parse_parquet_file",
                    select_columns |-> cli_args.selected_columns,
                    n_rows |-> n_rows ])
    /\ io' = Append(io, "open")
    /\ \/ /\ pc' = "panic_load"
          /\ df' = df
       \/ \E rows \in 0..MaxSrcRows :
             /\ df' = Some(Loaded(rows, n_rows))
             /\ pc' = "print_names"
    /\ UNCHANGED <<cli_args, env, env_writes, n_rows, file_format, delimiter,
                   engine, stdout>>

\* parse_csv_file: CsvReader::from_path with separator, header flag,
\* projection and row budget; opening or parsing may fail (expect).
ParseCsvFile ==
    /\ pc = "parse_csv_file"
    /\ calls' = Append(calls,
                  [ fn |-> "parse_csv_file",
                    select_columns |-> cli_args.selected_columns,
                    n_rows |-> n_rows,
                    delimiter |-> delimiter[1],
                    has_header |-> ~cli_args.no_header ])
    /\ io' = Append(io, "open")
    /\ \/ /\ pc' = "panic_load"
          /\ df' = df
       \/ \E rows \in 0..MaxSrcRows :
             /\ df' = Some(Loaded(rows, n_rows))
             /\ pc' = "print_names"
    /\ UNCHANGED <<cli_args, env, env_writes, n_rows, file_format, delimiter,
                   engine, stdout>>

\* main, lines 374-376.
PrintColumnNames ==
    /\ pc = "print_names"
    /\ IF cli_args.column_names_only
          THEN /\ engine' = Append(engine, [ op |-> "get_column_names", arg |-> None ])
               /\ stdout' = Append(stdout, "column_names")
          ELSE UNCHANGED <<engine, stdout>>
    /\ pc' = "print_describe"
    /\ UNCHANGED <<cli_args, env, env_writes, n_rows, file_format, delimiter,
                   io, calls, df>>

\* main, lines 379-384: describe may fail (expect).
PrintDescribe ==
    /\ pc = "print_describe"
    /\ IF cli_args.describe
          THEN /\ engine' = Append(engine, [ op |-> "describe", arg |-> None ])
               /\ \/ /\ stdout' = Append(stdout, "describe")
                     /\ pc' = "print_tail"
                  \/ /\ stdout' = stdout
                     /\ pc' = "panic_describe"
          ELSE /\ UNCHANGED <<engine, stdout>>
               /\ pc' = "print_tail"
    /\ UNCHANGED <<cli_args, env, env_writes, n_rows, file_format, delimiter,
                   io, calls, df>>

\* main, lines 387-389: df.tail(None).
PrintTail ==
    /\ pc = "print_tail"
    /\ IF cli_args.tail
          THEN /\ engine' = Append(engine, [ op |-> "tail", arg |-> None ])
               /\ stdout' = Append(stdout, "tail")
          ELSE UNCHANGED <<engine, stdout>>
    /\ pc' = "print_sample"
    /\ UNCHANGED <<cli_args, env, env_writes, n_rows, file_format, delimiter,
                   io, calls, df>>

\* main, lines 393-399.
sample_size(max_rows, table) ==
    IF max_rows # None THEN max_rows[1] ELSE table.height

\* main, lines 392-406: the sample size is printed, then the engine is
\* asked for that many rows without replacement, which fails (expect) when
\* the size exceeds the table's height.
PrintSample ==
    /\ pc = "print_sample"
    /\ IF cli_args.sample
          THEN LET size == sample_size(cli_args.max_rows, df[1])
               IN  /\ engine' = Append(engine,
                                  [ op |-> "sample_n_literal", arg |-> Some(size) ])
                   /\ IF size <= df[1].height
                         THEN /\ stdout' = stdout \o << "sample_size", "sample" >>
                              /\ pc' = "print_df"
                         ELSE /\ stdout' = Append(stdout, "sample_size")
                              /\ pc' = "panic_sample"
          ELSE /\ UNCHANGED <<engine, stdout>>
               /\ pc' = "print_df"
    /\ UNCHANGED <<cli_args, env, env_writes, n_rows, file_format, delimiter,
                   io, calls, df>>

\* main, line 409: the table is printed.
PrintDf ==
    /\ pc = "print_df"
    /\ stdout' = Append(stdout, "df")
    /\ pc' = "done"
    /\ UNCHANGED <<cli_args, env, env_writes, n_rows, file_format, delimiter,
                   io, calls, df, engine>>

Next ==
    \/ GetArgs
    \/ ConfigureTheEnvironment
    \/ Resolve
    \/ PrintIsStdin
    \/ ParseFromStdin
    \/ CheckIsFile
    \/ MatchFormat
    \/ ParseParquetFile
    \/ ParseCsvFile
    \/ PrintColumnNames
    \/ PrintDescribe
    \/ PrintTail
    \/ PrintSample
    \/ PrintDf

Spec == Init /\ [][Next]_vars

(***************************************************************************)
(* The resolvers on their own, applied to every input within the bounds.   *)
(***************************************************************************)
InitRowBudget ==
    /\ cli_args \in { [ DefaultArgs EXCEPT !.max_rows = n, !.head = h, !.tail = t,
                                           !.sample = s, !.column_names_only = c ] :
                        n \in Counts, h \in BOOLEAN, t \in BOOLEAN,
                        s \in BOOLEAN, c \in BOOLEAN }
    /\ pc = "call"
    /\ Fresh

CallGetNumRowsToParse ==
    /\ pc = "call"
    /\ n_rows' = get_num_rows_to_parse(cli_args.max_rows, cli_args.head,
                     cli_args.tail, cli_args.sample, cli_args.column_names_only)
    /\ pc' = "returned"
    /\ UNCHANGED <<cli_args, env, env_writes, file_format, delimiter,
                   io, calls, df, engine, stdout>>

NextRowBudget == CallGetNumRowsToParse

SpecRowBudget == InitRowBudget /\ [][NextRowBudget]_vars

InitFormat ==
    /\ cli_args \in { [ DefaultArgs EXCEPT !.filepath = p ] :
                        p \in SeqsUpTo(Tokens, MaxPathLen) }
    /\ pc = "call"
    /\ Fresh

CallGetFormatFromFilename ==
    /\ pc = "call"
    /\ file_format' = get_format_from_filename(cli_args.filepath)
    /\ pc' = "returned"
    /\ UNCHANGED <<cli_args, env, env_writes, n_rows, delimiter,
                   io, calls, df, engine, stdout>>

NextFormat == CallGetFormatFromFilename

SpecFormat == InitFormat /\ [][NextFormat]_vars

(***************************************************************************)
(* Properties.                                                             *)
(***************************************************************************)

\* C1: for every combination of the flags head, tail, sample and
\* column-names-only and every optional count n >= 1, the row budget is
\* Some(1) for column-names-only; else None for tail or sample, even with a
\* count; else the count when one is given; else 10 for head; else None.
C1_RowBudgetPrecedence ==
    pc = "returned" =>
      LET a == cli_args
      IN  /\ a.column_names_only => n_rows = Some(1)
          /\ ~a.column_names_only /\ (a.tail \/ a.sample) => n_rows = None
          /\ ~a.column_names_only /\ ~a.tail /\ ~a.sample /\ a.max_rows # None
               => n_rows = a.max_rows
          /\ ~a.column_names_only /\ ~a.tail /\ ~a.sample /\ a.max_rows = None
               /\ a.head => n_rows = Some(10)
          /\ ~a.column_names_only /\ ~a.tail /\ ~a.sample /\ a.max_rows = None
               /\ ~a.head => n_rows = None

C1_Witness ==
    /\ pc = "returned"
    /\ cli_args.tail
    /\ ~cli_args.column_names_only
    /\ cli_args.max_rows = Some(2)
    /\ n_rows = None

Renderings ==
    SelectSeq(stdout, LAMBDA w :
        w \in {"column_names", "describe", "tail", "sample", "df"})

\* C2: a run that completes has written exactly one rendering to standard
\* output, and in column-names-only mode has written nothing but the
\* column names.
C2_ExactlyOneRendering ==
    pc = "done" =>
      /\ Len(Renderings) = 1
      /\ cli_args.column_names_only => stdout = << "column_names" >>

PresentModes(a) == { m \in {"head", "tail", "sample"} :
                       \/ m = "head" /\ a.head
                       \/ m = "tail" /\ a.tail
                       \/ m = "sample" /\ a.sample }

\* C3: an invocation with two of --head/--tail/--sample, or with -c next
\* to any of --head, --tail, --sample, -n, -s, --no-header, -D, -m, ends
\* in the conflicting-flags failure with no file or stdin operation
\* attempted and no table loaded.
C3_ConflictsFailFast ==
    LET a == cli_args
        conflict ==
          \/ Cardinality(PresentModes(a)) >= 2
          \/ /\ a.column_names_only
             /\ \/ PresentModes(a) # {}
                \/ a.max_rows # None
                \/ a.selected_columns # None
                \/ a.no_header \/ a.describe \/ a.markdown
    IN  conflict /\ pc # "get_args" =>
          /\ pc = "exit_conflict"
          /\ io = << >>
          /\ calls = << >>
          /\ df = None

C3_Witness ==
    /\ pc = "exit_conflict"
    /\ cli_args.column_names_only
    /\ cli_args.describe
    /\ ~cli_args.head /\ ~cli_args.tail /\ ~cli_args.sample
    /\ io = << >>

EngineRequests(op) == SelectSeq(engine, LAMBDA r : r.op = op)

\* C4: in tail mode the whole table is loaded and the number of trailing
\* rows requested from the engine is the explicit count when -n is given
\* and the table's row count otherwise.
C4_TailRequestsCount ==
    \A i \in 1..Len(EngineRequests("tail")) :
      /\ df[1].height = df[1].source_rows
      /\ EngineRequests("tail")[i].arg =
           (IF cli_args.max_rows # None THEN cli_args.max_rows
                                        ELSE Some(df[1].height))

\* C5: in sample mode the size requested from the engine is the explicit
\* count when given, capped to the table's row count, and the row count
\* otherwise; it never exceeds the table's height.
C5_SampleSizeCapped ==
    \A i \in 1..Len(EngineRequests("sample_n_literal")) :
      LET size == EngineRequests("sample_n_literal")[i].arg[1]
      IN  /\ size <= df[1].height
          /\ size = (IF cli_args.max_rows # None
                        THEN Min(cli_args.max_rows[1], df[1].height)
                        ELSE df[1].height)

\* C6: nothing is written to standard output before the table has been
\* loaded, so a run that fails on the path, the format or the content has
\* written nothing.
C6_NoOutputBeforeLoad ==
    /\ stdout # << >> => df # None
    /\ pc \in {"panic_file_not_found", "panic_no_format", "panic_load"}
         => stdout = << >>

IsSkippedTail(t) ==
    /\ t # << >> => t[1] = Slash
    /\ \A i \in 1..Len(t) : t[i] \in {Slash, Dot}
    /\ \A i \in 1..(Len(t) - 1) : ~(t[i] = Dot /\ t[i + 1] = Dot)

\* The last component of p is  stem "." e  with the stem at least minStem
\* tokens long.
EndsInExtension(p, e, minStem) ==
    \E i \in 0..Len(p) : \E j \in i..Len(p) :
      LET pre  == SubSeq(p, 1, i)
          stem == SubSeq(p, i + 1, j)
          rest == SubSeq(p, j + 1, Len(p))
      IN  /\ pre = << >> \/ pre[Len(pre)] = Slash
          /\ Len(stem) >= minStem
          /\ \A k \in 1..Len(stem) : stem[k] # Slash
          /\ Len(rest) >= 2
          /\ rest[1] = Dot
          /\ rest[2] = e
          /\ IsSkippedTail(SubSeq(rest, 3, Len(rest)))

FormatByExtension(p, minStem) ==
    IF EndsInExtension(p, "csv", minStem) THEN Some("Csv")
    ELSE IF EndsInExtension(p, "tsv", minStem) THEN Some("Tsv")
    ELSE IF EndsInExtension(p, "parquet", minStem) THEN Some("Parquet")
    ELSE None

\* C8 as stated: a path whose final component ends in ".csv", ".tsv" or
\* ".parquet" maps to the corresponding format whatever precedes the
\* extension, every other path maps to no format.
C8_FormatByFinalExtension ==
    pc = "returned" => file_format = FormatByExtension(cli_args.filepath, 0)

\* C8 as amended: the same, provided at least one character of the final
\* component precedes the "." of the extension; a component that is only
\* ".csv", ".tsv" or ".parquet" maps to no format.
C8_FormatByExtensionOfNamedFile ==
    pc = "returned" => file_format = FormatByExtension(cli_args.filepath, 1)

C8_Witness ==
    /\ pc = "returned"
    /\ cli_args.filepath = << "CSV", Dot, "csv" >>
    /\ file_format = Some("Csv")

Validated == pc \notin {"get_args", "exit_conflict", "panic_args"}

\* C9: in an invocation that passes argument validation the presentation
\* settings (markdown or rounded style, unbounded row cap) are written
\* once, before any source operation and any write to standard output,
\* and never change afterwards.
C9_PresentationSetOnce ==
    /\ [](Validated /\ pc # "configure" =>
            /\ env_writes = 1
            /\ << "POLARS_FMT_MAX_ROWS", "-1" >> \in env
            /\ (<< "POLARS_FMT_TABLE_FORMATTING", "ASCII_MARKDOWN" >> \in env)
                 <=> cli_args.markdown
            /\ (<< "POLARS_FMT_TABLE_ROUNDED_CORNERS", "1" >> \in env)
                 <=> ~cli_args.markdown)
    /\ [](io # << >> \/ stdout # << >> \/ calls # << >> => env_writes = 1)
    /\ [][env_writes = 1 => env' = env /\ env_writes' = 1]_vars

C9_Witness ==
    /\ pc = "done"
    /\ cli_args.markdown
    /\ env_writes = 1
    /\ << "POLARS_FMT_TABLE_FORMATTING", "ASCII_MARKDOWN" >> \in env
    /\ io # << >>
    /\ stdout # << >>

\* C10: a file loader is called only after is_file answered true and with
\* a recognised format; is_file is asked before the format is looked at,
\* so a missing path fails as file-not-found whatever its extension and an
\* existing file without a recognised extension ends the run with no
\* load; the Parquet loader receives the projection and the row budget
\* only; standard input skips both checks and is parsed as delimited text.
C10_LoaderGuards ==
    /\ \A i \in 1..Len(calls) :
         LET c == calls[i]
         IN  /\ c.fn # "parse_from_stdin" =>
                  /\ cli_args.filepath # StdinPath
                  /\ io # << >> /\ io[1] = "is_file=true"
                  /\ file_format # None
             /\ c.fn = "parse_parquet_file" =>
                  /\ file_format = Some("Parquet")
                  /\ DOMAIN c = {"fn", "select_columns", "n_rows"}
                  /\ c.select_columns = cli_args.selected_columns
                  /\ c.n_rows = n_rows
             /\ c.fn = "parse_csv_file" => file_format \in {Some("Csv"), Some("Tsv")}
             /\ c.fn = "parse_from_stdin" =>
                  /\ cli_args.filepath = StdinPath
                  /\ {"delimiter", "has_header"} \subseteq DOMAIN c
                  /\ \A k \in 1..Len(io) : io[k] = "read_stdin"
    /\ (\E k \in 1..Len(io) : io[k] = "is_file=false")
         <=> pc = "panic_file_not_found"
    /\ pc = "panic_no_format" =>
         /\ io = << "is_file=true" >>
         /\ calls = << >>
         /\ df = None
    /\ cli_args.filepath # StdinPath /\ file_format = None /\ Validated
         /\ pc \notin {"configure", "resolve", "print_is_stdin", "is_file", "match_format"}
         => pc \in {"panic_file_not_found", "panic_no_format"}
    /\ cli_args.filepath = StdinPath /\ calls # << >>
         => calls[1].fn = "parse_from_stdin"

C10_Witness ==
    /\ pc = "panic_file_not_found"
    /\ cli_args.filepath = << "data" >>
    /\ file_format = None
    /\ io = << "is_file=false" >>
    /\ calls = << >>

====
